---------------------------- MODULE Spec2Model ----------------------------
(***************************************************************************)
(* The OCR dispatch core of open-ocr: OcrRpcClient.DecodeImage, the reply  *)
(* router handleRpcResponse, CheckOcrStatusByID, deleteRequestFromQueue    *)
(* and the postback goroutine with postOcrRequest (ocr_rpc_client.go,      *)
(* ocr_postback_client.go).                                                *)
(*                                                                         *)
(* Time is not measured.  A timer is armed, fired or stopped; its duration *)
(* is kept as data.  The expiry of a timer is an action of its own.        *)
(***************************************************************************)
EXTENDS Integers, Sequences, FiniteSets, TLC

(***************************************************************************)
(* Bounds of the model.                                                    *)
(***************************************************************************)
\* client calls of CheckOcrStatusByID, over all clients
MaxPolls == 2
\* deliveries the broker makes on one reply queue
MaxDeliveries == 2
\* POST attempts of one postback goroutine
MaxPosts == 4
\* largest timeout a request carries
MaxTimeOut == 4
\* largest number of messages and of consumers the queue statistics report
MaxMessages == 2
MaxConsumers == 2
\* most broker nodes the node statistics list
MaxNodes == 1
\* most broker nodes in the statistics the memory test is applied to
MaxStatNodes == 2

(***************************************************************************)
(* Program constants and configuration.                                    *)
(***************************************************************************)
\* var numRetries uint8 = 3
numRetries == 3
\* rabbitConfig.ResponseCacheTimeout, the configured default (seconds)
ResponseCacheTimeout == 2
\* rabbitConfig.MaximalResponseCacheTimeout, the configured maximum (seconds)
MaximalResponseCacheTimeout == 3
\* rabbitConfig.FactorForMessageAccept, the capacity of rpcResponseChan
FactorForMessageAccept == 1
\* the width of tryCounter (uint8)
Uint8Mod == 256
\* const memoryThreshold uint64 = 95
memoryThreshold == 95

RequestIDs == {"r1"}
Clients == {"c1", "c2"}

\* the callers of CheckOcrStatusByID: the clients of the HTTP layer and, per
\* deferred poll-only request, the goroutine that waits for the timer
Watchdog(id) == <<"wd", id>>
Client(c) == <<"client", c>>
Callers == {Client(c) : c \in Clients} \cup {Watchdog(id) : id \in RequestIDs}

(***************************************************************************)
(* OcrResult and the values built from it.                                 *)
(***************************************************************************)
OcrResult(text, status, id) == [Text |-> text, Status |-> status, ID |-> id]
\* OcrResult{}
EmptyResult == OcrResult("", "", "")

\* the reply-to addresses a request may carry: none, one that
\* checkURLForReplyTo accepts, one it rejects
ReplyTos == {"", "http://cb/x", "ftp://cb/x"}
checkURLForReplyTo(u) == u \in {"http://cb/x"}

\* the document types a request may carry: none, one the priority table may
\* hold, one it never holds
DocTypes == {"", "invoice", "letter"}

\* where the image of a request is: in ImgBytes, in a base64 string that
\* decodes or one that does not, behind a URL that answers or one that
\* does not
ImgSources == {"bytes", "base64", "badbase64", "url", "badurl"}

OcrRequests ==
    [ReplyTo : ReplyTos, Deferred : BOOLEAN, TimeOut : 0..MaxTimeOut,
     DocType : DocTypes, Img : ImgSources]

\* the requests whose whole life is followed: a timeout that is clamped and
\* one that is kept, the image in the request
LifecycleRequests ==
    {req \in OcrRequests :
        req.TimeOut \in {0, 1} /\ req.DocType = "" /\ req.Img = "bytes"}

\* rabbitConfig.QueuePrio, a map from document type to priority: one with a
\* "standard" entry, one without, and the nil map
QueuePrios ==
    { [k \in {"standard", "invoice"} |-> IF k = "standard" THEN 2 ELSE 9],
      [k \in {"invoice"} |-> 9],
      [k \in {} |-> 0] }

\* the RabbitConfig a client is made with (NewOcrRpcClient)
RabbitConfigs == [Reliable : BOOLEAN, QueuePrio : QueuePrios]
DefaultConfig ==
    [Reliable |-> FALSE,
     QueuePrio |-> [k \in {"standard", "invoice"} |-> IF k = "standard" THEN 2 ELSE 9]]

\* the bodies a worker may publish on the reply queue: JSON documents whose
\* id field is the worker's own, and one that is not JSON
Bodies ==
    { [json |-> TRUE, text |-> "hello", status |-> "done", id |-> "w7"],
      [json |-> TRUE, text |-> "failed", status |-> "error", id |-> ""],
      [json |-> FALSE, text |-> "", status |-> "", id |-> ""] }

\* json.Unmarshal(d.Body, &ocrResult): on an error ocrResult keeps its zero value
Unmarshal(body) ==
    IF body.json THEN OcrResult(body.text, body.status, body.id)
    ELSE EmptyResult

\* the outcomes of the broker operations of one DecodeImage call
BrokerOutcomes == {"ok", "dial", "setup", "publish"}

VARIABLES
    rabbitConfig,   \* the client's RabbitConfig: [Reliable, QueuePrio]
    reqIn,          \* id -> the OcrRequest DecodeImage was called with (a sequence of <= 1)
    dPc,            \* id -> where the DecodeImage call is
    dRet,           \* id -> what DecodeImage returned: [res, code, err]
    published,      \* id -> the messages published for the request
    connection,     \* id -> the broker connection of the call: none, open, closed, lost
    rPc,            \* id -> where handleRpcResponse is
    rVal,           \* id -> the result handleRpcResponse is sending
    nDeliveries,    \* id -> deliveries made on the reply queue
    delivery,       \* id -> the delivery handleRpcResponse took last (its d)
    rpcResponseChan,\* id -> the contents of the call's result channel
    Requests,       \* the keys of the map Requests
    timers,         \* the keys of the map timers
    timerState,     \* id -> none, armed, fired, stopped
    timerDur,       \* id -> the duration the deadline was armed with
    syncWait,       \* id -> the duration of the synchronous wait (time.After)
    inFlightGauge,  \* the prometheus gauge
    rlocks,         \* read locks held on requestsAndTimersMu
    crashed,        \* a goroutine panicked: the process is gone
    pPc,            \* caller -> where its CheckOcrStatusByID call is
    pId,            \* caller -> the requestID of the call
    pRes,           \* caller -> the local ocrResult
    pRet,           \* caller -> what its last call returned: [kind, res]
    pLate,          \* caller -> what had happened when its last call began
    nPolls,         \* client calls made
    drvPc,          \* id -> where the postback goroutine is
    tryCounter,     \* id -> its tryCounter
    ocrRes,         \* id -> its ocrRes
    posts,          \* id -> the POST attempts made: [body, ok]
    nSent,          \* id -> results written into the result channel
    nTerminal,      \* id -> calls of CheckOcrStatusByID that returned its terminal result
    receivers,      \* id -> who received from the result channel, in order
    d2Pc,           \* id -> where a second DecodeImage call with the same requestID is
    d2Req,          \* id -> the OcrRequest of that call (a sequence of <= 1)
    d2Ret,          \* id -> what that call returned
    ticket,         \* id -> the call whose channel and timer the maps hold at the key
    queueManager,   \* the decoded queue statistics: [NumMessages, NumConsumers]
    resManager,     \* the decoded node statistics: a sequence of [MemLimit, MemUsed]
    ServiceCanAccept,          \* the process-wide accept flag
    TechnicalErrorResManager,  \* the technical-error flag
    AppStop,        \* the application is told to stop
    StopChan,       \* the contents of StopChan
    ctlPc,          \* where SetResManagerState is
    boolCurValue,   \* its local boolCurValue
    boolOldValue,   \* its local boolOldValue
    lastPoll,       \* what the last call of CheckForAcceptRequest fetched
    stopSeen,       \* SetResManagerState has received from StopChan
    requests,       \* the keys of the map requests of the client with the mutex
    requestTimers,  \* the keys of its map timers
    mu,             \* who holds its requestsAndTimersMu: a thread, or nobody
    lPc,            \* thread -> where it is
    lRet,           \* thread -> what its last call of CheckOcrStatusByID returned
    replied,        \* id -> the router's send of the reply: none, sending, sent
    flagForResources, \* what a call of schedulerByMemoryLoad returned
    memPolled       \* schedulerByMemoryLoad has been called

vars == <<rabbitConfig, reqIn, dPc, dRet, published, connection, rPc, rVal, nDeliveries,
          delivery,
          rpcResponseChan, Requests, timers, timerState, timerDur, syncWait,
          inFlightGauge, rlocks, crashed, pPc, pId, pRes, pRet, pLate, nPolls,
          drvPc, tryCounter, ocrRes, posts, nSent, nTerminal, receivers,
          d2Pc, d2Req, d2Ret, ticket, queueManager, resManager,
          ServiceCanAccept, TechnicalErrorResManager, AppStop, StopChan,
          ctlPc, boolCurValue, boolOldValue, lastPoll, stopSeen,
          requests, requestTimers, mu, lPc, lRet, replied,
          flagForResources, memPolled>>

dispatchVars == <<reqIn, dPc, dRet, published, syncWait>>
routerVars == <<rPc, rVal, nDeliveries, delivery>>
pollVars == <<pPc, pId, pRes, pRet, pLate, nPolls, nTerminal>>
driverVars == <<drvPc, tryCounter, ocrRes, posts>>
registryVars == <<Requests, timers, inFlightGauge, rlocks>>
againVars == <<d2Pc, d2Req, d2Ret>>
admissionVars == <<queueManager, resManager, ServiceCanAccept,
                   TechnicalErrorResManager, AppStop, StopChan, ctlPc,
                   boolCurValue, boolOldValue, lastPoll, stopSeen>>
lockedVars == <<requests, requestTimers, mu, lPc, lRet, replied>>
memoryVars == <<flagForResources, memPolled>>
requestVars == <<reqIn, dPc, dRet, published, connection, rPc, rVal,
                 nDeliveries, delivery, rpcResponseChan, Requests, timers,
                 timerState,
                 timerDur, syncWait, inFlightGauge, rlocks, crashed, pPc, pId,
                 pRes, pRet, pLate, nPolls, drvPc, tryCounter, ocrRes, posts,
                 nSent, nTerminal, receivers>>

NoReturn == [res |-> EmptyResult, code |-> 0, err |-> ""]
\* no delivery taken yet
NoDelivery ==
    [CorrelationId |-> "",
     Body |-> [json |-> FALSE, text |-> "", status |-> "", id |-> ""]]
NoPollReturn == [kind |-> "none", res |-> EmptyResult]
NotLate == [terminal |-> FALSE, deadline |-> FALSE]

InitRequests ==
    /\ reqIn = [id \in RequestIDs |-> <<>>]
    /\ dPc = [id \in RequestIDs |-> "idle"]
    /\ dRet = [id \in RequestIDs |-> NoReturn]
    /\ published = [id \in RequestIDs |-> <<>>]
    /\ connection = [id \in RequestIDs |-> "none"]
    /\ rPc = [id \in RequestIDs |-> "none"]
    /\ rVal = [id \in RequestIDs |-> EmptyResult]
    /\ nDeliveries = [id \in RequestIDs |-> 0]
    /\ delivery = [id \in RequestIDs |-> NoDelivery]
    /\ rpcResponseChan = [id \in RequestIDs |-> <<>>]
    /\ Requests = {}
    /\ timers = {}
    /\ timerState = [id \in RequestIDs |-> "none"]
    /\ timerDur = [id \in RequestIDs |-> 0]
    /\ syncWait = [id \in RequestIDs |-> 0]
    /\ inFlightGauge = 0
    /\ rlocks = 0
    /\ crashed = FALSE
    /\ pPc = [c \in Callers |-> "idle"]
    /\ pId = [c \in Callers |-> CHOOSE id \in RequestIDs : TRUE]
    /\ pRes = [c \in Callers |-> EmptyResult]
    /\ pRet = [c \in Callers |-> NoPollReturn]
    /\ pLate = [c \in Callers |-> NotLate]
    /\ nPolls = 0
    /\ drvPc = [id \in RequestIDs |-> "none"]
    /\ tryCounter = [id \in RequestIDs |-> 1]
    /\ ocrRes = [id \in RequestIDs |-> EmptyResult]
    /\ posts = [id \in RequestIDs |-> <<>>]
    /\ nSent = [id \in RequestIDs |-> 0]
    /\ nTerminal = [id \in RequestIDs |-> 0]
    /\ receivers = [id \in RequestIDs |-> <<>>]

\* no second call, no ticket in the maps
InitAgain ==
    /\ d2Pc = [id \in RequestIDs |-> "idle"]
    /\ d2Req = [id \in RequestIDs |-> <<>>]
    /\ d2Ret = [id \in RequestIDs |-> NoReturn]
    /\ ticket = [id \in RequestIDs |-> [chan |-> 0, timer |-> 0]]

NoPoll ==
    [made |-> FALSE,
     queue |-> [err |-> TRUE, json |-> FALSE, fields |-> {},
                messages |-> 0, consumers |-> 0],
     stats |-> [err |-> TRUE, json |-> FALSE, nodes |-> <<>>]]

\* ocr_res_manager.go:35-42 and SetResManagerState :143-151
InitAdmission ==
    /\ queueManager = [NumMessages |-> 0, NumConsumers |-> 0]
    /\ resManager = <<>>
    /\ ServiceCanAccept = FALSE
    /\ TechnicalErrorResManager = FALSE
    /\ AppStop = FALSE
    /\ StopChan = <<>>
    /\ ctlPc = "loop"
    /\ boolCurValue = FALSE
    /\ boolOldValue = TRUE
    /\ lastPoll = NoPoll
    /\ stopSeen = FALSE

\* the client with the mutex (the variant of OcrRpcClient that guards its
\* maps with a deadlock.Mutex): two request IDs, and for each a thread that
\* calls DecodeImage with it and one that calls CheckOcrStatusByID
LockIDs == {"r1", "r2"}
Decoder(id) == <<"decode", id>>
Checker(id) == <<"check", id>>
Threads == {Decoder(id) : id \in LockIDs} \cup {Checker(id) : id \in LockIDs}
NoOwner == <<"nobody", "">>

InitLocked ==
    /\ requests = {}
    /\ requestTimers = {}
    /\ mu = NoOwner
    /\ lPc = [t \in Threads |-> "idle"]
    /\ lRet = [t \in Threads |-> "none"]
    /\ replied = [id \in LockIDs |-> "none"]

\* schedulerByMemoryLoad has not been called
InitMemory ==
    /\ flagForResources = FALSE
    /\ memPolled = FALSE

Init ==
    /\ rabbitConfig = DefaultConfig
    /\ InitRequests
    /\ InitAgain
    /\ InitAdmission
    /\ InitLocked
    /\ InitMemory

\* a client made with any configuration
InitDispatch ==
    /\ rabbitConfig \in RabbitConfigs
    /\ InitRequests
    /\ InitAgain
    /\ InitAdmission
    /\ InitLocked
    /\ InitMemory


(***************************************************************************)
(* DecodeImage, up to the publication of the request.                      *)
(***************************************************************************)
\* (a clamp that lets a timeout equal to the maximum through)
ClampTimeOut_Above(t) ==
    IF t > MaximalResponseCacheTimeout \/ t = 0
    THEN ResponseCacheTimeout
    ELSE t

\* ocr_rpc_client.go:103-105
ClampTimeOut(t) ==
    IF t >= MaximalResponseCacheTimeout \/ t = 0
    THEN ResponseCacheTimeout
    ELSE t

\* (a DecodeImage that leaves the deferred flag as the request has it)
Normalize_DeferredAsGiven(req) ==
    [req EXCEPT !.TimeOut = ClampTimeOut(req.TimeOut)]

\* the request as DecodeImage publishes it: ReplyTo forces Deferred (:78-88),
\* the timeout is clamped (:103-105)
Normalize(req) ==
    [req EXCEPT !.Deferred = (req.Deferred \/ req.ReplyTo # ""),
                !.TimeOut = ClampTimeOut(req.TimeOut)]

\* (a timer armed with the request's own timeout)
DeadlineDuration_OfRequest(req) == req.TimeOut

\* time.NewTimer(time.Duration(c.rabbitConfig.ResponseCacheTimeout) * time.Second)
DeadlineDuration(req) == ResponseCacheTimeout

\* time.After(time.Duration(c.rabbitConfig.ResponseCacheTimeout) * time.Second)
SyncWaitDuration(req) == ResponseCacheTimeout

Return(res, code, err) == [res |-> res, code |-> code, err |-> err]

\* amqp.Publishing{..., ReplyTo: callbackQueue.Name, CorrelationId: correlationID}
\* a lookup in a Go map: the zero value when the key is missing
MapGet(m, k) == IF k \in DOMAIN m THEN m[k] ELSE 0

\* :90-101: the priority of the message
messagePriority(req) ==
    IF req.DocType # ""
    THEN IF req.DocType \in DOMAIN rabbitConfig.QueuePrio
         THEN rabbitConfig.QueuePrio[req.DocType]
         ELSE MapGet(rabbitConfig.QueuePrio, "standard")
    ELSE 1

\* :162-181: ImgBytes is nil and decodeBase64 or downloadImgUrl returns an error
ImageFails(req) == req.Img \in {"badbase64", "badurl"}

\* where a call is once its results are set, from :155 on: with the reliable
\* flag the deferred confirmDelivery runs before the caller gets them
ReturnPc == IF rabbitConfig.Reliable THEN "confirm" ELSE "returned"

Publishing(id, req) ==
    [CorrelationId |-> id, ReplyTo |-> id, Priority |-> messagePriority(req),
     Body |-> req]

DecodeImage(id, req, outcome) ==
    /\ ~crashed
    /\ dPc[id] = "idle"
    /\ reqIn' = [reqIn EXCEPT ![id] = <<req>>]
    /\ IF req.ReplyTo # "" /\ ~checkURLForReplyTo(req.ReplyTo)
       THEN \* :82
            /\ dRet' = [dRet EXCEPT ![id] = Return(OcrResult("", "", id), 400, "bad url")]
            /\ dPc' = [dPc EXCEPT ![id] = "returned"]
            /\ UNCHANGED <<published, connection, rPc, syncWait>>
       ELSE IF outcome = "dial"
       THEN \* :116
            /\ dRet' = [dRet EXCEPT ![id] =
                  Return(OcrResult("broker not reachable", "error", ""), 500, "dial")]
            /\ dPc' = [dPc EXCEPT ![id] = "returned"]
            /\ UNCHANGED <<published, connection, rPc, syncWait>>
       ELSE IF outcome = "setup"
       THEN \* :124, :136, :143, :150
            /\ dRet' = [dRet EXCEPT ![id] = Return(EmptyResult, 500, "setup")]
            /\ dPc' = [dPc EXCEPT ![id] = "returned"]
            /\ connection' = [connection EXCEPT ![id] = "open"]
            /\ UNCHANGED <<published, rPc, syncWait>>
       ELSE IF ImageFails(req)
       THEN \* :171, :178, after subscribeCallbackQueue started the router
            /\ dRet' = [dRet EXCEPT ![id] = Return(EmptyResult, 500, "image")]
            /\ dPc' = [dPc EXCEPT ![id] = ReturnPc]
            /\ connection' = [connection EXCEPT ![id] = "open"]
            /\ rPc' = [rPc EXCEPT ![id] = "consuming"]
            /\ UNCHANGED <<published, syncWait>>
       ELSE IF outcome = "publish"
       THEN \* :207
            /\ dRet' = [dRet EXCEPT ![id] = Return(OcrResult("", "", id), 500, "")]
            /\ dPc' = [dPc EXCEPT ![id] = ReturnPc]
            /\ connection' = [connection EXCEPT ![id] = "open"]
            /\ rPc' = [rPc EXCEPT ![id] = "consuming"]
            /\ UNCHANGED <<published, syncWait>>
       ELSE /\ connection' = [connection EXCEPT ![id] = "open"]
            /\ rPc' = [rPc EXCEPT ![id] = "consuming"]
            /\ published' = [published EXCEPT ![id] = <<Publishing(id, Normalize(req))>>]
            /\ IF Normalize(req).Deferred
               THEN /\ dPc' = [dPc EXCEPT ![id] = "register"]
                    /\ UNCHANGED <<dRet, syncWait>>
               ELSE /\ dPc' = [dPc EXCEPT ![id] = "syncwait"]
                    /\ syncWait' = [syncWait EXCEPT ![id] = SyncWaitDuration(Normalize(req))]
                    /\ UNCHANGED dRet
    /\ UNCHANGED <<rVal, nDeliveries, delivery, rpcResponseChan, timerState, timerDur,
                   crashed, nSent, receivers>>
    /\ UNCHANGED <<registryVars, pollVars, driverVars>>
    /\ UNCHANGED <<rabbitConfig, againVars, ticket, admissionVars, lockedVars, memoryVars>>

\* the request the call works on after :78-105
Req(id) == Normalize(reqIn[id][1])

(***************************************************************************)
(* The deferred path: registration (:211-223) and the two goroutines.      *)
(***************************************************************************)
\* :213-217: inFlightGauge.Inc(), the timer, RLock, Requests[requestID] = ...
Register1(id) ==
    /\ ~crashed
    /\ dPc[id] = "register"
    /\ inFlightGauge' = inFlightGauge + 1
    /\ timerState' = [timerState EXCEPT ![id] = "armed"]
    /\ timerDur' = [timerDur EXCEPT ![id] = DeadlineDuration(Req(id))]
    /\ rlocks' = rlocks + 1
    /\ Requests' = Requests \cup {id}
    /\ ticket' = [ticket EXCEPT ![id].chan = 1]
    /\ dPc' = [dPc EXCEPT ![id] = "register2"]
    /\ UNCHANGED <<reqIn, dRet, published, syncWait, connection, routerVars,
                   rpcResponseChan, timers, crashed, pollVars, driverVars,
                   nSent, receivers>>
    /\ UNCHANGED <<rabbitConfig, againVars, admissionVars, lockedVars, memoryVars>>

\* ocrRes := OcrResult{ID: requestID, Status: "error", Text: ""}
Placeholder(id) == OcrResult("", "error", id)

\* :218-237 and :240-280: timers[requestID] = timer, RUnlock, the goroutine,
\* and the return of {ID, "processing"}, 200
Register2(id) ==
    /\ ~crashed
    /\ dPc[id] = "register2"
    /\ timers' = timers \cup {id}
    /\ ticket' = [ticket EXCEPT ![id].timer = 1]
    /\ rlocks' = rlocks - 1
    /\ IF Req(id).ReplyTo = ""
       THEN /\ pPc' = [pPc EXCEPT ![Watchdog(id)] = "waittimer"]
            /\ pId' = [pId EXCEPT ![Watchdog(id)] = id]
            /\ UNCHANGED <<drvPc, tryCounter, ocrRes>>
       ELSE /\ drvPc' = [drvPc EXCEPT ![id] = "select"]
            /\ tryCounter' = [tryCounter EXCEPT ![id] = 1]
            /\ ocrRes' = [ocrRes EXCEPT ![id] = Placeholder(id)]
            /\ UNCHANGED <<pPc, pId>>
    /\ dRet' = [dRet EXCEPT ![id] = Return(OcrResult("", "processing", id), 200, "")]
    /\ dPc' = [dPc EXCEPT ![id] = ReturnPc]
    /\ UNCHANGED <<reqIn, published, syncWait, connection, routerVars,
                   rpcResponseChan, Requests, inFlightGauge, timerState, timerDur,
                   crashed, pRes, pRet, pLate, nPolls, nTerminal, posts, nSent,
                   receivers>>
    /\ UNCHANGED <<rabbitConfig, againVars, admissionVars, lockedVars, memoryVars>>

\* the runtime fires the timer of :214
TimerFire(id) ==
    /\ ~crashed
    /\ timerState[id] = "armed"
    /\ timerState' = [timerState EXCEPT ![id] = "fired"]
    /\ UNCHANGED <<dispatchVars, connection, routerVars, rpcResponseChan,
                   registryVars, timerDur, crashed, pollVars, driverVars,
                   nSent, receivers>>
    /\ UNCHANGED <<rabbitConfig, againVars, ticket, admissionVars, lockedVars, memoryVars>>

(***************************************************************************)
(* The result channel.                                                     *)
(***************************************************************************)
CanReceive(id) == Len(rpcResponseChan[id]) > 0

\* a receive by `who`: the head leaves the channel
Receive(id, who) ==
    /\ rpcResponseChan' = [rpcResponseChan EXCEPT ![id] = Tail(@)]
    /\ receivers' = [receivers EXCEPT ![id] = Append(@, who)]

(***************************************************************************)
(* The synchronous path (:281-289).                                        *)
(***************************************************************************)
SyncReceive(id) ==
    /\ ~crashed
    /\ dPc[id] = "syncwait"
    /\ CanReceive(id)
    /\ Receive(id, <<"sync", id>>)
    /\ dRet' = [dRet EXCEPT ![id] = Return(Head(rpcResponseChan[id]), 200, "")]
    /\ dPc' = [dPc EXCEPT ![id] = ReturnPc]
    /\ UNCHANGED <<reqIn, published, syncWait, connection, routerVars,
                   registryVars, timerState, timerDur, crashed, pollVars,
                   driverVars, nSent>>
    /\ UNCHANGED <<rabbitConfig, againVars, ticket, admissionVars, lockedVars, memoryVars>>

\* the result DecodeImage returns when time.After fires first (:287)
SyncTimeoutResult(id) == EmptyResult

SyncTimeout(id) ==
    /\ ~crashed
    /\ dPc[id] = "syncwait"
    /\ dRet' = [dRet EXCEPT ![id] = Return(SyncTimeoutResult(id), 500, "timeout")]
    /\ dPc' = [dPc EXCEPT ![id] = ReturnPc]
    /\ UNCHANGED <<reqIn, published, syncWait, connection, routerVars,
                   rpcResponseChan, registryVars, timerState, timerDur, crashed,
                   pollVars, driverVars, nSent, receivers>>
    /\ UNCHANGED <<rabbitConfig, againVars, ticket, admissionVars, lockedVars, memoryVars>>

(***************************************************************************)
(* confirmDelivery (:435-446), deferred at :155.                           *)
(***************************************************************************)
\* a receive from ack or nack can proceed: the broker confirms a message
\* that was published, and the closing of the channel closes both
ConfirmArrives(id) == Len(published[id]) > 0 \/ connection[id] # "open"

ConfirmDelivery(id) ==
    /\ ~crashed
    /\ dPc[id] = "confirm"
    /\ ConfirmArrives(id)
    /\ dPc' = [dPc EXCEPT ![id] = "returned"]
    /\ UNCHANGED <<reqIn, dRet, published, syncWait, connection, routerVars,
                   rpcResponseChan, registryVars, timerState, timerDur, crashed,
                   pollVars, driverVars, nSent, receivers>>
    /\ UNCHANGED <<rabbitConfig, againVars, ticket, admissionVars, lockedVars, memoryVars>>

(***************************************************************************)
(* handleRpcResponse (:342-379).                                           *)
(***************************************************************************)
CorrelationIds == RequestIDs \cup {"other"}

\* (a router that takes every delivery for its own)
Matches_Any(correlationID, corr) == TRUE

\* :349: d.CorrelationId == correlationID
Matches(correlationID, corr) == corr = correlationID

\* :360-367: the result the router builds from a delivery's body
RouterResult(id, body) == [Unmarshal(body) EXCEPT !.ID = id]

\* one delivery taken from the stream: skipped unless its correlation id is
\* the router's
Delivery(id, corr, body) ==
    /\ ~crashed
    /\ rPc[id] = "consuming"
    /\ connection[id] = "open"
    /\ nDeliveries[id] < MaxDeliveries
    /\ nDeliveries' = [nDeliveries EXCEPT ![id] = @ + 1]
    /\ delivery' = [delivery EXCEPT ![id] = [CorrelationId |-> corr, Body |-> body]]
    /\ IF Matches(id, corr)
       THEN /\ rVal' = [rVal EXCEPT ![id] = RouterResult(id, body)]
            /\ rPc' = [rPc EXCEPT ![id] = "sending"]
       ELSE UNCHANGED <<rVal, rPc>>
    /\ UNCHANGED <<dispatchVars, connection, rpcResponseChan, registryVars,
                   timerState, timerDur, crashed, pollVars, driverVars, nSent,
                   receivers>>
    /\ UNCHANGED <<rabbitConfig, againVars, ticket, admissionVars, lockedVars, memoryVars>>

\* (a router that goes on consuming after it sent a result)
RouterAfterSend_KeepsConsuming == "consuming"

\* where the router is after rpcResponseChan <- ocrResult: it returns (:372)
RouterAfterSend == "done"

\* :370-372 and the deferred c.connection.Close() of :351
RouterSend(id) ==
    /\ ~crashed
    /\ rPc[id] = "sending"
    /\ Len(rpcResponseChan[id]) < FactorForMessageAccept
    /\ rpcResponseChan' = [rpcResponseChan EXCEPT ![id] = Append(@, rVal[id])]
    /\ nSent' = [nSent EXCEPT ![id] = @ + 1]
    /\ rPc' = [rPc EXCEPT ![id] = RouterAfterSend]
    /\ connection' = [connection EXCEPT ![id] =
                         IF RouterAfterSend = "done" THEN "closed" ELSE @]
    /\ UNCHANGED <<dispatchVars, rVal, nDeliveries, delivery, registryVars, timerState,
                   timerDur, crashed, pollVars, driverVars, receivers>>
    /\ UNCHANGED <<rabbitConfig, againVars, ticket, admissionVars, lockedVars, memoryVars>>

\* the delivery stream ends (the broker or the network took the connection
\* away): the range loop ends and the router returns without a word
StreamClosed(id) ==
    /\ ~crashed
    /\ rPc[id] = "consuming"
    /\ connection[id] = "open"
    /\ connection' = [connection EXCEPT ![id] = "lost"]
    /\ rPc' = [rPc EXCEPT ![id] = "done"]
    /\ UNCHANGED <<dispatchVars, rVal, nDeliveries, delivery, rpcResponseChan,
                   registryVars, timerState, timerDur, crashed, pollVars,
                   driverVars, nSent, receivers>>
    /\ UNCHANGED <<rabbitConfig, againVars, ticket, admissionVars, lockedVars, memoryVars>>


(***************************************************************************)
(* deleteRequestFromQueue (:409-433), in two steps.                        *)
(***************************************************************************)
\* :410-418: RLock, inFlightGauge.Dec(), delete(Requests, requestID)
DeleteFromRequests(id) ==
    /\ rlocks' = rlocks + 1
    /\ inFlightGauge' = inFlightGauge - 1
    /\ Requests' = Requests \ {id}
    /\ ticket' = [ticket EXCEPT ![id].chan = 0]

\* timers[requestID].Stop() on a key the map does not hold is Stop on a nil
\* *time.Timer: a nil dereference, which ends the process
StopPanics(id) == id \notin timers

\* :419-428: timers[requestID].Stop(), delete(timers, requestID), RUnlock
DeleteFromTimers(id) ==
    IF StopPanics(id)
    THEN /\ crashed' = TRUE
         /\ UNCHANGED <<timers, ticket, timerState, rlocks>>
    ELSE /\ timerState' = [timerState EXCEPT ![id] =
                              IF @ = "armed" THEN "stopped" ELSE @]
         /\ timers' = timers \ {id}
         /\ ticket' = [ticket EXCEPT ![id].timer = 0]
         /\ rlocks' = rlocks - 1
         /\ UNCHANGED crashed

(***************************************************************************)
(* CheckOcrStatusByID (:382-407).                                          *)
(***************************************************************************)
PollReturn(kind, res) == [kind |-> kind, res |-> res]

\* a result CheckOcrStatusByID returns for `id` that is its terminal result
IsTerminalFor(id, res) == res.ID = id /\ res.Status # "processing"

\* what is known when a call begins: whether a call for the same id has
\* returned the terminal result, and whether the deadline timer has fired
Late(id) == [terminal |-> nTerminal[id] > 0,
             deadline |-> timerState[id] = "fired"]

\* the call of caller c returns res with a nil error
ReturnResult(c, res) ==
    /\ pRet' = [pRet EXCEPT ![c] = PollReturn("ok", res)]
    /\ pRes' = [pRes EXCEPT ![c] = EmptyResult]
    /\ pPc' = [pPc EXCEPT ![c] = "idle"]
    /\ nTerminal' = [nTerminal EXCEPT ![pId[c]] =
                         IF IsTerminalFor(pId[c], res) THEN @ + 1 ELSE @]

\* :384-389: RLock and the lookup; a missing key returns the error
CheckEntry(c, id) ==
    /\ pId' = [pId EXCEPT ![c] = id]
    /\ pLate' = [pLate EXCEPT ![c] = Late(id)]
    /\ IF id \notin Requests
       THEN /\ pRet' = [pRet EXCEPT ![c] = PollReturn("error", EmptyResult)]
            /\ pPc' = [pPc EXCEPT ![c] = "idle"]
            /\ UNCHANGED rlocks
       ELSE /\ pRet' = [pRet EXCEPT ![c] = NoPollReturn]
            /\ pPc' = [pPc EXCEPT ![c] = "select"]
            /\ rlocks' = rlocks + 1
    /\ UNCHANGED <<dispatchVars, connection, routerVars, rpcResponseChan,
                   Requests, timers, inFlightGauge, timerState, timerDur,
                   crashed, pRes, nTerminal, driverVars, nSent, receivers>>
    /\ UNCHANGED <<rabbitConfig, againVars, ticket, admissionVars, lockedVars, memoryVars>>

\* a client of the HTTP layer asks for the status of a request.  The id is
\* made by the HTTP layer for the call of DecodeImage and the client learns
\* it from the response, so it asks once DecodeImage has returned
Poll(c, id) ==
    /\ ~crashed
    /\ pPc[Client(c)] = "idle"
    /\ dPc[id] = "returned"
    /\ nPolls < MaxPolls
    /\ nPolls' = nPolls + 1
    /\ CheckEntry(Client(c), id)

\* :229-232: <-timer.C, then CheckOcrStatusByID(requestID)
WatchdogWake(id) ==
    /\ ~crashed
    /\ pPc[Watchdog(id)] = "waittimer"
    /\ timerState[id] = "fired"
    /\ UNCHANGED nPolls
    /\ CheckEntry(Watchdog(id), id)

\* :393-396: the select.  Requests[requestID] of a missing key is a nil
\* channel, which is never ready
PollSelect(c) ==
    /\ ~crashed
    /\ pPc[c] = "select"
    /\ IF pId[c] \in Requests /\ CanReceive(pId[c])
       THEN /\ Receive(pId[c], c)
            /\ pRes' = [pRes EXCEPT ![c] = Head(rpcResponseChan[pId[c]])]
            /\ pPc' = [pPc EXCEPT ![c] = "unlock"]
       ELSE /\ pPc' = [pPc EXCEPT ![c] = "default"]
            /\ UNCHANGED <<rpcResponseChan, receivers, pRes>>
    /\ UNCHANGED <<dispatchVars, connection, routerVars, registryVars,
                   timerState, timerDur, crashed, pId, pRet, pLate, nPolls,
                   nTerminal, driverVars, nSent>>
    /\ UNCHANGED <<rabbitConfig, againVars, ticket, admissionVars, lockedVars, memoryVars>>

\* :397-400: the default branch returns "processing" with the read lock held
PollDefault(c) ==
    /\ ~crashed
    /\ pPc[c] = "default"
    /\ IF pId[c] \in Requests
       THEN /\ pRet' = [pRet EXCEPT ![c] =
                           PollReturn("ok", OcrResult("", "processing", pId[c]))]
            /\ pPc' = [pPc EXCEPT ![c] = "idle"]
       ELSE /\ pPc' = [pPc EXCEPT ![c] = "unlock"]
            /\ UNCHANGED pRet
    /\ UNCHANGED <<dispatchVars, connection, routerVars, rpcResponseChan,
                   registryVars, timerState, timerDur, crashed, pId, pRes,
                   pLate, nPolls, nTerminal, driverVars, nSent, receivers>>
    /\ UNCHANGED <<rabbitConfig, againVars, ticket, admissionVars, lockedVars, memoryVars>>

\* (a CheckOcrStatusByID that forgets the cleanup of :403-405)
ShouldDelete_Never(id, res) == FALSE

\* :403: the entry is deleted when it is there and the result is terminal
ShouldDelete(id, res) == id \in Requests /\ res.Status # "processing"

\* :402-406: RUnlock, then either deleteRequestFromQueue or the return
PollUnlock(c) ==
    /\ ~crashed
    /\ pPc[c] = "unlock"
    /\ rlocks' = rlocks - 1
    /\ IF ShouldDelete(pId[c], pRes[c])
       THEN /\ pPc' = [pPc EXCEPT ![c] = "delete1"]
            /\ UNCHANGED <<pRet, pRes, nTerminal>>
       ELSE ReturnResult(c, pRes[c])
    /\ UNCHANGED <<dispatchVars, connection, routerVars, rpcResponseChan,
                   Requests, timers, inFlightGauge, timerState, timerDur,
                   crashed, pId, pLate, nPolls, driverVars, nSent, receivers>>
    /\ UNCHANGED <<rabbitConfig, againVars, ticket, admissionVars, lockedVars, memoryVars>>

PollDelete1(c) ==
    /\ ~crashed
    /\ pPc[c] = "delete1"
    /\ DeleteFromRequests(pId[c])
    /\ pPc' = [pPc EXCEPT ![c] = "delete2"]
    /\ UNCHANGED <<dispatchVars, connection, routerVars, rpcResponseChan,
                   timers, timerState, timerDur, crashed, pId, pRes, pRet,
                   pLate, nPolls, nTerminal, driverVars, nSent, receivers>>
    /\ UNCHANGED <<rabbitConfig, againVars, admissionVars, lockedVars, memoryVars>>

PollDelete2(c) ==
    /\ ~crashed
    /\ pPc[c] = "delete2"
    /\ DeleteFromTimers(pId[c])
    /\ IF StopPanics(pId[c])
       THEN UNCHANGED <<pPc, pRet, pRes, nTerminal>>
       ELSE ReturnResult(c, pRes[c])
    /\ UNCHANGED <<dispatchVars, connection, routerVars, rpcResponseChan,
                   Requests, inFlightGauge, timerDur, pId, pLate, nPolls,
                   driverVars, nSent, receivers>>
    /\ UNCHANGED <<rabbitConfig, againVars, admissionVars, lockedVars, memoryVars>>

(***************************************************************************)
(* The postback goroutine (:240-275) and postOcrRequest.                   *)
(***************************************************************************)
\* postOcrRequest(&ocrRes, ocrRequest.ReplyTo, tryCounter): the body is the
\* JSON of ocrRes; ok is false when client.Do or ReadAll returns an error
Post(id, ok) ==
    posts' = [posts EXCEPT ![id] =
                 Append(@, [body |-> ocrRes[id], to |-> Req(id).ReplyTo,
                            try |-> tryCounter[id], ok |-> ok])]

\* tryCounter++ on a uint8
Incr(t) == (t + 1) % Uint8Mod

\* :249-251: case ocrResult := <-rpcResponseChan
DriverReceive(id) ==
    /\ ~crashed
    /\ drvPc[id] = "select"
    /\ CanReceive(id)
    /\ Receive(id, <<"driver", id>>)
    /\ ocrRes' = [ocrRes EXCEPT ![id] = Head(rpcResponseChan[id])]
    /\ drvPc' = [drvPc EXCEPT ![id] = "post"]
    /\ UNCHANGED <<dispatchVars, connection, routerVars, registryVars,
                   timerState, timerDur, crashed, pollVars, tryCounter, posts,
                   nSent>>
    /\ UNCHANGED <<rabbitConfig, againVars, ticket, admissionVars, lockedVars, memoryVars>>

\* :253-261: one attempt of the retry loop
DriverPost(id, ok) ==
    /\ ~crashed
    /\ drvPc[id] = "post"
    /\ Len(posts[id]) < MaxPosts
    /\ Post(id, ok)
    /\ IF ok
       THEN /\ drvPc' = [drvPc EXCEPT ![id] = "delete1"]
            /\ UNCHANGED tryCounter
       ELSE /\ tryCounter' = [tryCounter EXCEPT ![id] = Incr(@)]
            /\ drvPc' = [drvPc EXCEPT ![id] = "sleep"]
    /\ UNCHANGED <<dispatchVars, connection, routerVars, rpcResponseChan,
                   registryVars, timerState, timerDur, crashed, pollVars,
                   ocrRes, nSent, receivers>>
    /\ UNCHANGED <<rabbitConfig, againVars, ticket, admissionVars, lockedVars, memoryVars>>

\* where the goroutine goes when the retry loop's condition is false: the
\* inner for ends and the outer for selects again
AfterRetries == "select"

\* :252, :257: the sleep ends and the condition tryCounter <= numRetries is read
DriverRetry(id) ==
    /\ ~crashed
    /\ drvPc[id] = "sleep"
    /\ drvPc' = [drvPc EXCEPT ![id] =
                    IF tryCounter[id] <= numRetries THEN "post" ELSE AfterRetries]
    /\ UNCHANGED <<dispatchVars, connection, routerVars, rpcResponseChan,
                   registryVars, timerState, timerDur, crashed, pollVars,
                   tryCounter, ocrRes, posts, nSent, receivers>>
    /\ UNCHANGED <<rabbitConfig, againVars, ticket, admissionVars, lockedVars, memoryVars>>

\* :263: time.After(rpcResponseTimeout * time.Second) fires.  The duration is
\* 20e9 * 1e9 ns wrapped to 64 bits, some 49 years: the request's own timer,
\* armed before it for seconds, is no longer armed by then
DriverTimeAfter(id) ==
    /\ ~crashed
    /\ drvPc[id] = "select"
    /\ timerState[id] # "armed"
    /\ drvPc' = [drvPc EXCEPT ![id] = "timeoutpost"]
    /\ UNCHANGED <<dispatchVars, connection, routerVars, rpcResponseChan,
                   registryVars, timerState, timerDur, crashed, pollVars,
                   tryCounter, ocrRes, posts, nSent, receivers>>
    /\ UNCHANGED <<rabbitConfig, againVars, ticket, admissionVars, lockedVars, memoryVars>>

\* :265-272: the attempt of the time.After branch; after a failure and the
\* sleep the outer for selects again
DriverTimeoutPost(id, ok) ==
    /\ ~crashed
    /\ drvPc[id] = "timeoutpost"
    /\ Len(posts[id]) < MaxPosts
    /\ Post(id, ok)
    /\ IF ok
       THEN /\ drvPc' = [drvPc EXCEPT ![id] = "delete1"]
            /\ UNCHANGED tryCounter
       ELSE /\ tryCounter' = [tryCounter EXCEPT ![id] = Incr(@)]
            /\ drvPc' = [drvPc EXCEPT ![id] = "select"]
    /\ UNCHANGED <<dispatchVars, connection, routerVars, rpcResponseChan,
                   registryVars, timerState, timerDur, crashed, pollVars,
                   ocrRes, nSent, receivers>>
    /\ UNCHANGED <<rabbitConfig, againVars, ticket, admissionVars, lockedVars, memoryVars>>

\* :242: defer deleteRequestFromQueue(requestID, "defer")
DriverDelete1(id) ==
    /\ ~crashed
    /\ drvPc[id] = "delete1"
    /\ DeleteFromRequests(id)
    /\ drvPc' = [drvPc EXCEPT ![id] = "delete2"]
    /\ UNCHANGED <<dispatchVars, connection, routerVars, rpcResponseChan,
                   timers, timerState, timerDur, crashed, pollVars, tryCounter,
                   ocrRes, posts, nSent, receivers>>
    /\ UNCHANGED <<rabbitConfig, againVars, admissionVars, lockedVars, memoryVars>>

DriverDelete2(id) ==
    /\ ~crashed
    /\ drvPc[id] = "delete2"
    /\ DeleteFromTimers(id)
    /\ drvPc' = [drvPc EXCEPT ![id] = IF StopPanics(id) THEN @ ELSE "done"]
    /\ UNCHANGED <<dispatchVars, connection, routerVars, rpcResponseChan,
                   Requests, inFlightGauge, timerDur, pollVars, tryCounter,
                   ocrRes, posts, nSent, receivers>>
    /\ UNCHANGED <<rabbitConfig, againVars, admissionVars, lockedVars, memoryVars>>

(***************************************************************************)
(* The program.                                                            *)
(***************************************************************************)
Next ==
    \/ \E id \in RequestIDs, req \in LifecycleRequests, o \in BrokerOutcomes :
          DecodeImage(id, req, o)
    \/ \E id \in RequestIDs : Register1(id)
    \/ \E id \in RequestIDs : Register2(id)
    \/ \E id \in RequestIDs : TimerFire(id)
    \/ \E id \in RequestIDs : SyncReceive(id)
    \/ \E id \in RequestIDs : SyncTimeout(id)
    \/ \E id \in RequestIDs, corr \in CorrelationIds, body \in Bodies :
          Delivery(id, corr, body)
    \/ \E id \in RequestIDs : RouterSend(id)
    \/ \E id \in RequestIDs : StreamClosed(id)
    \/ \E c \in Clients, id \in RequestIDs : Poll(c, id)
    \/ \E id \in RequestIDs : WatchdogWake(id)
    \/ \E c \in Callers : PollSelect(c)
    \/ \E c \in Callers : PollDefault(c)
    \/ \E c \in Callers : PollUnlock(c)
    \/ \E c \in Callers : PollDelete1(c)
    \/ \E c \in Callers : PollDelete2(c)
    \/ \E id \in RequestIDs : DriverReceive(id)
    \/ \E id \in RequestIDs, ok \in BOOLEAN : DriverPost(id, ok)
    \/ \E id \in RequestIDs : DriverRetry(id)
    \/ \E id \in RequestIDs : DriverTimeAfter(id)
    \/ \E id \in RequestIDs, ok \in BOOLEAN : DriverTimeoutPost(id, ok)
    \/ \E id \in RequestIDs : DriverDelete1(id)
    \/ \E id \in RequestIDs : DriverDelete2(id)

Spec == Init /\ [][Next]_vars

\* DecodeImage alone, over every request: what it returns, publishes,
\* registers and arms
NextDispatch ==
    \/ \E id \in RequestIDs, req \in OcrRequests, o \in BrokerOutcomes :
          DecodeImage(id, req, o)
    \/ \E id \in RequestIDs : Register1(id)
    \/ \E id \in RequestIDs : Register2(id)
    \/ \E id \in RequestIDs : TimerFire(id)
    \/ \E id \in RequestIDs : SyncTimeout(id)
    \/ \E id \in RequestIDs : ConfirmDelivery(id)

SpecDispatch == InitDispatch /\ [][NextDispatch]_vars


(***************************************************************************)
(* A second call of DecodeImage with a requestID that was used before.     *)
(* The call is followed up to its return; its router and its goroutines    *)
(* are not.                                                                *)
(***************************************************************************)
\* the requests of the second call: those that reach :211
AgainRequests ==
    {req \in LifecycleRequests :
        Normalize(req).Deferred
            /\ (req.ReplyTo = "" \/ checkURLForReplyTo(req.ReplyTo))}

\* the reply queue of the first call, declared exclusive under the name
\* requestID (:298-305), exists as long as that call's connection is open
ReplyQueueHeld(id) == rPc[id] # "none" /\ connection[id] = "open"

\* :59-210 for the second call.  QueueDeclare fails while another
\* connection holds the exclusive queue of the same name (:142-144)
DecodeImageAgain(id, req, outcome) ==
    /\ ~crashed
    /\ dPc[id] = "returned"
    /\ d2Pc[id] = "idle"
    /\ d2Req' = [d2Req EXCEPT ![id] = <<req>>]
    /\ IF outcome = "dial"
       THEN /\ d2Ret' = [d2Ret EXCEPT ![id] =
                  Return(OcrResult("broker not reachable", "error", ""), 500, "dial")]
            /\ d2Pc' = [d2Pc EXCEPT ![id] = "returned"]
            /\ UNCHANGED published
       ELSE IF outcome = "setup" \/ ReplyQueueHeld(id)
       THEN /\ d2Ret' = [d2Ret EXCEPT ![id] = Return(EmptyResult, 500, "setup")]
            /\ d2Pc' = [d2Pc EXCEPT ![id] = "returned"]
            /\ UNCHANGED published
       ELSE IF outcome = "publish"
       THEN /\ d2Ret' = [d2Ret EXCEPT ![id] = Return(OcrResult("", "", id), 500, "")]
            /\ d2Pc' = [d2Pc EXCEPT ![id] = "returned"]
            /\ UNCHANGED published
       ELSE /\ published' = [published EXCEPT ![id] =
                                Append(@, Publishing(id, Normalize(req)))]
            /\ d2Pc' = [d2Pc EXCEPT ![id] = "register"]
            /\ UNCHANGED d2Ret
    /\ UNCHANGED <<reqIn, dPc, dRet, syncWait, connection, routerVars,
                   rpcResponseChan, registryVars, timerState, timerDur, crashed,
                   pollVars, driverVars, nSent, receivers>>
    /\ UNCHANGED <<rabbitConfig, ticket, admissionVars, lockedVars, memoryVars>>

\* :213-217 for the second call: Requests[requestID] = rpcResponseChan puts
\* the channel of this call at the key
RegisterAgain1(id) ==
    /\ ~crashed
    /\ d2Pc[id] = "register"
    /\ inFlightGauge' = inFlightGauge + 1
    /\ rlocks' = rlocks + 1
    /\ Requests' = Requests \cup {id}
    /\ ticket' = [ticket EXCEPT ![id].chan = 2]
    /\ d2Pc' = [d2Pc EXCEPT ![id] = "register2"]
    /\ UNCHANGED <<dispatchVars, connection, routerVars, rpcResponseChan,
                   timers, timerState, timerDur, crashed, pollVars, driverVars,
                   nSent, receivers>>
    /\ UNCHANGED <<rabbitConfig, d2Req, d2Ret, admissionVars, lockedVars, memoryVars>>

\* :218-280 for the second call: timers[requestID] = timer puts the timer of
\* this call at the key; the call returns {ID, "processing"}, 200
RegisterAgain2(id) ==
    /\ ~crashed
    /\ d2Pc[id] = "register2"
    /\ timers' = timers \cup {id}
    /\ ticket' = [ticket EXCEPT ![id].timer = 2]
    /\ rlocks' = rlocks - 1
    /\ d2Ret' = [d2Ret EXCEPT ![id] = Return(OcrResult("", "processing", id), 200, "")]
    /\ d2Pc' = [d2Pc EXCEPT ![id] = "returned"]
    /\ UNCHANGED <<dispatchVars, connection, routerVars, rpcResponseChan,
                   Requests, inFlightGauge, timerState, timerDur, crashed,
                   pollVars, driverVars, nSent, receivers>>
    /\ UNCHANGED <<rabbitConfig, d2Req, admissionVars, lockedVars, memoryVars>>

\* two calls of DecodeImage with one requestID, the reply to the first, and
\* no call of CheckOcrStatusByID in between
NextAgain ==
    \/ \E id \in RequestIDs, req \in LifecycleRequests, o \in BrokerOutcomes :
          DecodeImage(id, req, o)
    \/ \E id \in RequestIDs : Register1(id)
    \/ \E id \in RequestIDs : Register2(id)
    \/ \E id \in RequestIDs : TimerFire(id)
    \/ \E id \in RequestIDs : SyncTimeout(id)
    \/ \E id \in RequestIDs, corr \in CorrelationIds, body \in Bodies :
          Delivery(id, corr, body)
    \/ \E id \in RequestIDs : RouterSend(id)
    \/ \E id \in RequestIDs : StreamClosed(id)
    \/ \E id \in RequestIDs, req \in AgainRequests, o \in BrokerOutcomes :
          DecodeImageAgain(id, req, o)
    \/ \E id \in RequestIDs : RegisterAgain1(id)
    \/ \E id \in RequestIDs : RegisterAgain2(id)

SpecAgain == Init /\ [][NextAgain]_vars

(***************************************************************************)
(* The client with the mutex: the registration in DecodeImage and          *)
(* CheckOcrStatusByID of the variant that locks requestsAndTimersMu        *)
(* (a deadlock.Mutex) and whose result channel is unbuffered.              *)
(***************************************************************************)
\* DecodeImage of a deferred request has published it and reaches
\* requestsAndTimersMu.Lock()
LockedDispatch(id) ==
    /\ lPc[Decoder(id)] = "idle"
    /\ lPc' = [lPc EXCEPT ![Decoder(id)] = "lock"]
    /\ UNCHANGED <<requests, requestTimers, mu, lRet, replied>>
    /\ UNCHANGED <<rabbitConfig, requestVars, againVars, ticket, admissionVars, memoryVars>>

\* Lock, requests[requestID] = rpcResponseChan, timers[requestID] = timer,
\* Unlock, and the return of {ID, "processing"}
LockedRegister(id) ==
    /\ lPc[Decoder(id)] = "lock"
    /\ mu = NoOwner
    /\ requests' = requests \cup {id}
    /\ requestTimers' = requestTimers \cup {id}
    /\ lPc' = [lPc EXCEPT ![Decoder(id)] = "done"]
    /\ UNCHANGED <<mu, lRet, replied>>
    /\ UNCHANGED <<rabbitConfig, requestVars, againVars, ticket, admissionVars, memoryVars>>

\* handleRpcResponse has a matching delivery and reaches
\* rpcResponseChan <- ocrResult: on an unbuffered channel the send waits
\* for a receiver
LockedRouterSend(id) ==
    /\ lPc[Decoder(id)] # "idle"
    /\ replied[id] = "none"
    /\ replied' = [replied EXCEPT ![id] = "sending"]
    /\ UNCHANGED <<requests, requestTimers, mu, lPc, lRet>>
    /\ UNCHANGED <<rabbitConfig, requestVars, againVars, ticket, admissionVars, memoryVars>>

\* somebody calls CheckOcrStatusByID(id) and reaches requestsAndTimersMu.Lock()
LockedCheck(id) ==
    /\ lPc[Checker(id)] = "idle"
    /\ lPc' = [lPc EXCEPT ![Checker(id)] = "lock"]
    /\ lRet' = [lRet EXCEPT ![Checker(id)] = "none"]
    /\ UNCHANGED <<requests, requestTimers, mu, replied>>
    /\ UNCHANGED <<rabbitConfig, requestVars, againVars, ticket, admissionVars, memoryVars>>

\* Lock and the lookup: a missing key unlocks and returns the error, a key
\* that is there leads to the receive with the mutex held
LockedCheckEntry(id) ==
    /\ lPc[Checker(id)] = "lock"
    /\ mu = NoOwner
    /\ IF id \notin requests
       THEN /\ lRet' = [lRet EXCEPT ![Checker(id)] = "error"]
            /\ lPc' = [lPc EXCEPT ![Checker(id)] = "idle"]
            /\ UNCHANGED mu
       ELSE /\ mu' = Checker(id)
            /\ lPc' = [lPc EXCEPT ![Checker(id)] = "receive"]
            /\ UNCHANGED lRet
    /\ UNCHANGED <<requests, requestTimers, replied>>
    /\ UNCHANGED <<rabbitConfig, requestVars, againVars, ticket, admissionVars, memoryVars>>

\* ocrResult := <-requests[requestID] meets the router's send; the entry is
\* deleted from both maps, the mutex unlocked and the result returned
LockedReceive(id) ==
    /\ lPc[Checker(id)] = "receive"
    /\ replied[id] = "sending"
    /\ replied' = [replied EXCEPT ![id] = "sent"]
    /\ requests' = requests \ {id}
    /\ requestTimers' = requestTimers \ {id}
    /\ mu' = NoOwner
    /\ lRet' = [lRet EXCEPT ![Checker(id)] = "result"]
    /\ lPc' = [lPc EXCEPT ![Checker(id)] = "idle"]
    /\ UNCHANGED <<rabbitConfig, requestVars, againVars, ticket, admissionVars, memoryVars>>

NextLocked ==
    \/ \E id \in LockIDs : LockedDispatch(id)
    \/ \E id \in LockIDs : LockedRegister(id)
    \/ \E id \in LockIDs : LockedRouterSend(id)
    \/ \E id \in LockIDs : LockedCheck(id)
    \/ \E id \in LockIDs : LockedCheckEntry(id)
    \/ \E id \in LockIDs : LockedReceive(id)

SpecLocked == Init /\ [][NextLocked]_vars

(***************************************************************************)
(* uint64, the type of MemLimit, MemUsed and of the totals: a number below *)
(* 2^64 is held as four digits to the base 2^16, the lowest first, and     *)
(* +, * and / are done digit by digit.  What is carried out of the highest *)
(* digit is lost, as in the machine.  The same operators work on longer    *)
(* numbers.                                                                *)
(***************************************************************************)
Limb == 65536

\* the uint64 of a number below 2^31
U64(n) == <<n % Limb, n \div Limb, 0, 0>>

RECURSIVE AddDigits(_, _, _, _)
AddDigits(a, b, i, carry) ==
    IF i > Len(a) THEN <<>>
    ELSE LET s == a[i] + b[i] + carry
         IN  <<s % Limb>> \o AddDigits(a, b, i + 1, s \div Limb)

\* a + b
Uint64Add(a, b) == AddDigits(a, b, 1, 0)

RECURSIVE MulDigits(_, _, _, _)
MulDigits(a, k, i, carry) ==
    IF i > Len(a) THEN <<>>
    ELSE LET p == a[i] * k + carry
         IN  <<p % Limb>> \o MulDigits(a, k, i + 1, p \div Limb)

\* a * k for a small k
Uint64Mul(a, k) == MulDigits(a, k, 1, 0)

RECURSIVE DivDigits(_, _, _, _)
DivDigits(a, k, i, rem) ==
    IF i = 0 THEN <<>>
    ELSE LET cur == rem * Limb + a[i]
         IN  DivDigits(a, k, i - 1, cur % k) \o <<cur \div k>>

\* a / k for a small k: the quotient, rounded down
Uint64Div(a, k) == DivDigits(a, k, Len(a), 0)

RECURSIVE LessDigits(_, _, _)
LessDigits(a, b, i) ==
    IF i = 0 THEN FALSE
    ELSE IF a[i] # b[i] THEN a[i] < b[i]
    ELSE LessDigits(a, b, i - 1)

\* a < b
Uint64Less(a, b) == LessDigits(a, b, Len(a))

(***************************************************************************)
(* The resource manager (ocr_res_manager.go).                              *)
(***************************************************************************)
\* what url2bytes(urlQueue) may return as the body: a JSON object with the
\* fields messages and consumers, a JSON object without them, or bytes
\* that are not JSON
QueueBodies ==
    [err : {FALSE}, json : {TRUE}, fields : {{"messages", "consumers"}},
     messages : 0..MaxMessages, consumers : 0..MaxConsumers]
    \cup {[err |-> FALSE, json |-> TRUE, fields |-> {},
           messages |-> 0, consumers |-> 0],
          [err |-> FALSE, json |-> FALSE, fields |-> {},
           messages |-> 0, consumers |-> 0]}

\* one entry of the node statistics
NodeStats == [MemLimit : {U64(0), U64(100)}, MemUsed : {U64(0), U64(94), U64(95)}]

RECURSIVE SeqsUpTo(_, _)
SeqsUpTo(S, n) ==
    IF n = 0 THEN {<<>>}
    ELSE LET shorter == SeqsUpTo(S, n - 1)
         IN  shorter \cup {Append(q, x) : q \in {t \in shorter : Len(t) = n - 1}, x \in S}

\* what url2bytes(urlStat) may return as the body: a JSON array of node
\* entries, or bytes that are not JSON
StatBodies ==
    [err : {FALSE}, json : {TRUE}, nodes : SeqsUpTo(NodeStats, MaxNodes)]
    \cup {[err |-> FALSE, json |-> FALSE, nodes |-> <<>>]}

\* what a call of url2bytes returns: an error and no body, or a body
QueueFetchError ==
    [err |-> TRUE, json |-> FALSE, fields |-> {}, messages |-> 0, consumers |-> 0]
StatFetchError == [err |-> TRUE, json |-> FALSE, nodes |-> <<>>]
QueueFetches == {QueueFetchError} \cup QueueBodies
StatFetches == {StatFetchError} \cup StatBodies

\* json.Unmarshal(jsonQueueStat, queueManager): a field the object does not
\* have keeps the value the struct held
UnmarshalQueue(body, qm) ==
    [NumMessages |-> IF "messages" \in body.fields THEN body.messages
                     ELSE qm.NumMessages,
     NumConsumers |-> IF "consumers" \in body.fields THEN body.consumers
                      ELSE qm.NumConsumers]

\* json.Unmarshal(jsonResStat, &resManager): the slice is filled anew
UnmarshalStats(body) == body.nodes

\* memTotalInUse += ..., memTotalAvailable += ... (:120-123), uint64 sums
RECURSIVE SumField(_, _)
SumField(nodes, f) ==
    IF nodes = <<>> THEN U64(0)
    ELSE Uint64Add(Head(nodes)[f], SumField(Tail(nodes), f))

\* :116-129
schedulerByMemoryLoad(rm) ==
    LET memTotalInUse == SumField(rm, "MemUsed")
        memTotalAvailable == SumField(rm, "MemLimit")
    IN  Uint64Less(memTotalInUse,
                   Uint64Div(Uint64Mul(memTotalAvailable, memoryThreshold), 100))

\* the length of the queue, out of the decoded queue statistics
getQueueLen(qm) == qm.NumMessages

\* (a scheduler that accepts a queue as long as the workers' capacity)
schedulerByWorkerNumber_AtCapacity(qm) ==
    getQueueLen(qm) <= (qm.NumConsumers * FactorForMessageAccept)

\* :132-138, factorForMessageAccept being the configured factor (:148)
schedulerByWorkerNumber(qm) ==
    getQueueLen(qm) < (qm.NumConsumers * FactorForMessageAccept)

\* a fetch or a decode of the call fails (:50, :56, :66, :76)
FetchOrDecodeFails(q, st) ==
    q.err \/ st.err \/ ~q.json \/ ~st.json

\* CheckForAcceptRequest (:45-113): the state it leaves and what it returns
CheckForAcceptRequest(q, st) ==
    IF q.err \/ st.err
    THEN \* :50-63
         [qm |-> queueManager, rm |-> resManager, tech |-> TRUE, ret |-> FALSE]
    ELSE IF ~q.json
    THEN \* :66-73
         [qm |-> queueManager, rm |-> resManager, tech |-> TRUE, ret |-> FALSE]
    ELSE IF ~st.json
    THEN \* :76-82, the queue statistics already decoded
         [qm |-> UnmarshalQueue(q, queueManager), rm |-> resManager,
          tech |-> TRUE, ret |-> FALSE]
    ELSE LET qm == UnmarshalQueue(q, queueManager)
             rm == UnmarshalStats(st)
         IN  IF qm.NumConsumers = 0
             THEN \* :84-87
                  [qm |-> qm, rm |-> rm, tech |-> TRUE, ret |-> FALSE]
             ELSE \* :89-94
                  [qm |-> qm, rm |-> rm, tech |-> FALSE,
                   ret |-> (schedulerByWorkerNumber(qm) /\ schedulerByMemoryLoad(rm))]

(***************************************************************************)
(* SetResManagerState (:142-172), the loop of the resource manager.        *)
(***************************************************************************)
\* somebody asks the daemon to stop: StopChan <- true, a channel of capacity 1
SendStop ==
    /\ Len(StopChan) < 1
    /\ StopChan' = Append(StopChan, TRUE)
    /\ UNCHANGED <<queueManager, resManager, ServiceCanAccept,
                   TechnicalErrorResManager, AppStop, ctlPc, boolCurValue,
                   boolOldValue, lastPoll, stopSeen>>
    /\ UNCHANGED <<rabbitConfig, requestVars, againVars, ticket, lockedVars, memoryVars>>

\* :153-155: if AppStop == true { break }
ControllerExit ==
    /\ ctlPc = "loop"
    /\ AppStop
    /\ ctlPc' = "done"
    /\ UNCHANGED <<queueManager, resManager, ServiceCanAccept,
                   TechnicalErrorResManager, AppStop, StopChan, boolCurValue,
                   boolOldValue, lastPoll, stopSeen>>
    /\ UNCHANGED <<rabbitConfig, requestVars, againVars, ticket, lockedVars, memoryVars>>

\* (a stop branch that leaves AppStop alone)
AppStopAfterStop_Unset == AppStop

\* :160: AppStop = true
AppStopAfterStop == TRUE

\* :157-162: case <-StopChan
ControllerStop ==
    /\ ctlPc = "loop"
    /\ ~AppStop
    /\ Len(StopChan) > 0
    /\ StopChan' = Tail(StopChan)
    /\ ServiceCanAccept' = FALSE
    /\ AppStop' = AppStopAfterStop
    /\ stopSeen' = TRUE
    /\ UNCHANGED <<queueManager, resManager, TechnicalErrorResManager, ctlPc,
                   boolCurValue, boolOldValue, lastPoll>>
    /\ UNCHANGED <<rabbitConfig, requestVars, againVars, ticket, lockedVars, memoryVars>>

\* :163-169: the default branch, taken when StopChan is empty: one call of
\* CheckForAcceptRequest under ServiceCanAcceptMu, then the sleep
ControllerPoll(q, st) ==
    /\ ctlPc = "loop"
    /\ ~AppStop
    /\ Len(StopChan) = 0
    /\ LET r == CheckForAcceptRequest(q, st)
       IN  /\ queueManager' = r.qm
           /\ resManager' = r.rm
           /\ TechnicalErrorResManager' = r.tech
           /\ boolOldValue' = boolCurValue
           /\ boolCurValue' = r.ret
           /\ ServiceCanAccept' = r.ret
    /\ lastPoll' = [made |-> TRUE, queue |-> q, stats |-> st]
    /\ ctlPc' = "sleep"
    /\ UNCHANGED <<AppStop, StopChan, stopSeen>>
    /\ UNCHANGED <<rabbitConfig, requestVars, againVars, ticket, lockedVars, memoryVars>>

\* :169: time.Sleep(sleepFor * time.Second) ends
ControllerWake ==
    /\ ctlPc = "sleep"
    /\ ctlPc' = "loop"
    /\ UNCHANGED <<queueManager, resManager, ServiceCanAccept,
                   TechnicalErrorResManager, AppStop, StopChan, boolCurValue,
                   boolOldValue, lastPoll, stopSeen>>
    /\ UNCHANGED <<rabbitConfig, requestVars, againVars, ticket, lockedVars, memoryVars>>

\* the steps of the goroutine that runs SetResManagerState
ControllerStep ==
    \/ ControllerExit
    \/ ControllerStop
    \/ \E q \in QueueFetches, st \in StatFetches : ControllerPoll(q, st)
    \/ ControllerWake

NextAdmission ==
    \/ SendStop
    \/ ControllerExit
    \/ ControllerStop
    \/ \E q \in QueueFetches, st \in StatFetches : ControllerPoll(q, st)
    \/ ControllerWake

\* the goroutine is scheduled as long as it can take a step
SpecAdmission == Init /\ [][NextAdmission]_vars /\ WF_vars(ControllerStep)

(***************************************************************************)
(* schedulerByMemoryLoad alone, over node statistics of every size.        *)
(***************************************************************************)
\* the values of mem_limit and mem_used a node may report: small ones, some
\* of them no multiples of 20, then 2^58 and 2^64 - 1
MemValues ==
    { U64(0), U64(9), U64(10), U64(95), U64(100),
      <<0, 0, 0, 1024>>, <<65535, 65535, 65535, 65535>> }

MemNodeStats == [MemLimit : MemValues, MemUsed : MemValues]

\* the slice resManager after json.Unmarshal of a node list (:75)
InitStats ==
    /\ rabbitConfig = DefaultConfig
    /\ InitRequests
    /\ InitAgain
    /\ InitLocked
    /\ InitMemory
    /\ queueManager = [NumMessages |-> 0, NumConsumers |-> 0]
    /\ resManager \in SeqsUpTo(MemNodeStats, MaxStatNodes)
    /\ ServiceCanAccept = FALSE
    /\ TechnicalErrorResManager = FALSE
    /\ AppStop = FALSE
    /\ StopChan = <<>>
    /\ ctlPc = "loop"
    /\ boolCurValue = FALSE
    /\ boolOldValue = TRUE
    /\ lastPoll = NoPoll
    /\ stopSeen = FALSE

\* :89: flagForResources := schedulerByMemoryLoad()
MemoryLoad ==
    /\ ~memPolled
    /\ flagForResources' = schedulerByMemoryLoad(resManager)
    /\ memPolled' = TRUE
    /\ UNCHANGED <<rabbitConfig, requestVars, againVars, ticket, admissionVars,
                   lockedVars>>

NextMemory == MemoryLoad

SpecMemory == InitStats /\ [][NextMemory]_vars

(***************************************************************************)
(* The kinds of request, as DecodeImage sorts them.                        *)
(***************************************************************************)
Called(id) == Len(reqIn[id]) = 1
Published(id) == Len(published[id]) = 1
Synchronous(id) == Called(id) /\ ~Req(id).Deferred
PollOnly(id) == Called(id) /\ Req(id).Deferred /\ Req(id).ReplyTo = ""
Postback(id) == Called(id) /\ checkURLForReplyTo(Req(id).ReplyTo)
\* the deferred call went through :211-223 and returned
Registered(id) == Called(id) /\ Req(id).Deferred /\ dPc[id] = "returned"
                     /\ dRet[id].code = 200
\* the last call of caller c has returned
HasReturned(c) == pPc[c] = "idle" /\ pRet[c].kind # "none"

(***************************************************************************)
(* C1.  For a deferred poll-only request: at most one call of              *)
(* CheckOcrStatusByID returns the terminal result (a status other than     *)
(* processing, id = requestID); every call that begins after that one      *)
(* returned ends with the unknown-request error; once the terminal result  *)
(* has been returned the entry is in neither map, and an entry that has    *)
(* left the registry was taken out by the call that received the result.   *)
(***************************************************************************)
C1_TerminalResultOnce ==
    \A id \in RequestIDs :
        PollOnly(id) =>
            /\ nTerminal[id] <= 1
            /\ \A c \in Callers :
                  (pId[c] = id /\ HasReturned(c) /\ pLate[c].terminal)
                      => pRet[c].kind = "error"
            /\ nTerminal[id] = 1 => (id \notin Requests /\ id \notin timers)
            /\ (Registered(id) /\ id \notin Requests)
                  => (Len(receivers[id]) = 1 /\ nSent[id] = 1)

\* a poll-only request whose terminal result one call has returned, and a
\* client whose later call got the unknown-request error
C1_Witness ==
    \E id \in RequestIDs, c \in Clients :
        /\ PollOnly(id)
        /\ nTerminal[id] = 1
        /\ pId[Client(c)] = id
        /\ HasReturned(Client(c))
        /\ pLate[Client(c)].terminal
        /\ pRet[Client(c)].kind = "error"


(***************************************************************************)
(* C2.  Once the deadline timer of a registered deferred request has fired *)
(* and the goroutine that waits for it has made its call of                *)
(* CheckOcrStatusByID, the request is in neither map; and a call of        *)
(* CheckOcrStatusByID that began after the timer fired does not return     *)
(* status processing.                                                      *)
(***************************************************************************)
C2_GoneAfterDeadline ==
    \A id \in RequestIDs :
        /\ (PollOnly(id) /\ timerState[id] = "fired"
                /\ HasReturned(Watchdog(id)))
              => (id \notin Requests /\ id \notin timers)
        /\ \A c \in Callers :
              (pId[c] = id /\ HasReturned(c) /\ pLate[c].deadline)
                  => pRet[c].res.Status # "processing"

(***************************************************************************)
(* C3.  The reply of a deferred request with a postback URL reaches the    *)
(* postback goroutine, whatever calls of CheckOcrStatusByID clients make   *)
(* for the same id: nobody but that goroutine receives from the request's  *)
(* result channel, so the result it POSTs is the worker's.                 *)
(***************************************************************************)
C3_ReplyReachesPostback ==
    \A id \in RequestIDs :
        Postback(id) =>
            \A i \in 1..Len(receivers[id]) : receivers[id][i] = <<"driver", id>>

(***************************************************************************)
(* C4.  The postback goroutine of one request makes at most numRetries     *)
(* POST attempts, and none after an attempt that returned without an       *)
(* error.                                                                  *)
(***************************************************************************)
C4_AtMostNAttempts ==
    \A id \in RequestIDs :
        /\ Len(posts[id]) <= numRetries
        /\ \A i \in 1..Len(posts[id]) : posts[id][i].ok => i = Len(posts[id])

(***************************************************************************)
(* C5.  The postback goroutine exits in every outcome, and the registry    *)
(* holds no entry of the request once it has: after numRetries failed      *)
(* attempts to POST the worker's reply it is not back waiting on the       *)
(* result channel, and when it is done the request is in neither map.      *)
(***************************************************************************)
FailedPosts(id) == {i \in 1..Len(posts[id]) : ~posts[id][i].ok}
DriverReceived(id) ==
    \E i \in 1..Len(receivers[id]) : receivers[id][i] = <<"driver", id>>

C5_DriverExits ==
    \A id \in RequestIDs :
        /\ (DriverReceived(id) /\ Cardinality(FailedPosts(id)) >= numRetries)
              => drvPc[id] # "select"
        /\ drvPc[id] = "done" => (id \notin Requests /\ id \notin timers)

(***************************************************************************)
(* C6.  A synchronous DecodeImage whose deadline elapses without a reply   *)
(* returns a result with id = requestID and status error, status code 500  *)
(* and the timeout error.                                                  *)
(***************************************************************************)
C6_SyncTimeoutReturn ==
    \A id \in RequestIDs :
        (Synchronous(id) /\ dPc[id] = "returned" /\ dRet[id].err = "timeout")
            => /\ dRet[id].code = 500
               /\ dRet[id].res.ID = id
               /\ dRet[id].res.Status = "error"

(***************************************************************************)
(* C7.  Every result with status done or error that a caller sees, as the  *)
(* return of DecodeImage, as the return of CheckOcrStatusByID or as the     *)
(* body of a postback, carries the requestID of the call.                  *)
(***************************************************************************)
TerminalStatus(res) == res.Status \in {"done", "error"}

C7_TerminalResultHasID ==
    \A id \in RequestIDs :
        /\ (dPc[id] = "returned" /\ TerminalStatus(dRet[id].res))
              => dRet[id].res.ID = id
        /\ \A c \in Callers :
              (pId[c] = id /\ HasReturned(c) /\ pRet[c].kind = "ok"
                  /\ TerminalStatus(pRet[c].res))
                  => pRet[c].res.ID = id
        /\ \A i \in 1..Len(posts[id]) :
              TerminalStatus(posts[id][i].body) => posts[id][i].body.ID = id


(***************************************************************************)
(* C8.  For one request at most one result is written into its result      *)
(* channel and at most one consumer receives it.  A synchronous            *)
(* DecodeImage that has returned after publishing returned either the      *)
(* router's result, which it received itself, with 200, or the timeout     *)
(* with 500, and after the timeout nobody receives the reply: the channel  *)
(* has no receiver and every call of CheckOcrStatusByID for the id ends     *)
(* with the unknown-request error.                                         *)
(***************************************************************************)
C8_OneResultOneConsumer ==
    \A id \in RequestIDs :
        /\ nSent[id] <= 1
        /\ Len(receivers[id]) <= 1
        /\ (Synchronous(id) /\ Published(id) /\ dPc[id] = "returned") =>
              \/ /\ dRet[id].code = 200
                 /\ dRet[id].err = ""
                 /\ receivers[id] = << <<"sync", id>> >>
                 /\ nSent[id] = 1
                 /\ dRet[id].res = rVal[id]
              \/ /\ dRet[id].code = 500
                 /\ dRet[id].err = "timeout"
                 /\ receivers[id] = <<>>
        /\ Synchronous(id) =>
              \A c \in Callers :
                  (pId[c] = id /\ HasReturned(c)) => pRet[c].kind = "error"

\* a synchronous call that returned the timeout, the reply that came after
\* it lying in the channel, and a client told that the request is unknown
C8_Witness ==
    \E id \in RequestIDs, c \in Clients :
        /\ Synchronous(id)
        /\ dPc[id] = "returned"
        /\ dRet[id].err = "timeout"
        /\ nSent[id] = 1
        /\ Len(rpcResponseChan[id]) = 1
        /\ pId[Client(c)] = id
        /\ HasReturned(Client(c))

DeadlineApplied(id) ==
    IF Synchronous(id) THEN syncWait[id] ELSE timerDur[id]

C10_TimeOutClamped ==
    \A id \in RequestIDs :
        Published(id) =>
            /\ (reqIn[id][1].TimeOut = 0
                    \/ reqIn[id][1].TimeOut >= MaximalResponseCacheTimeout)
                  => published[id][1].Body.TimeOut = ResponseCacheTimeout
            /\ (0 < reqIn[id][1].TimeOut
                    /\ reqIn[id][1].TimeOut < MaximalResponseCacheTimeout)
                  => published[id][1].Body.TimeOut = reqIn[id][1].TimeOut

\* a published request whose timeout was the configured maximum
C10_Witness ==
    \E id \in RequestIDs :
        /\ Published(id)
        /\ reqIn[id][1].TimeOut = MaximalResponseCacheTimeout
        /\ published[id][1].Body.TimeOut = ResponseCacheTimeout

(***************************************************************************)
(* C11.  The priority of the published message is QueuePrio[DocType] when  *)
(* the request's DocType is set and is a key of the priority table;         *)
(* otherwise it is the table's "standard" priority when the table has one; *)
(* otherwise it is 1.  For every DocType, the empty one included, and      *)
(* every table, one without a "standard" entry included.                   *)
(***************************************************************************)
C11_PrioritySelection ==
    \A id \in RequestIDs :
        Published(id) =>
            LET docType == reqIn[id][1].DocType
                queuePrio == rabbitConfig.QueuePrio
                priority == published[id][1].Priority
            IN  IF docType # "" /\ docType \in DOMAIN queuePrio
                THEN priority = queuePrio[docType]
                ELSE IF "standard" \in DOMAIN queuePrio
                THEN priority = queuePrio["standard"]
                ELSE priority = 1

(***************************************************************************)
(* C12.  After a call of CheckForAcceptRequest whose two fetches and two   *)
(* decodes succeeded, the accept flag equals queueOK /\ memoryOK, where     *)
(* queueOK is messages < consumers * factorForMessageAccept over the       *)
(* decoded queue statistics; the flag is false whenever the statistics     *)
(* fetched report consumers = 0.                                           *)
(***************************************************************************)
\* the loop has made a poll and not yet seen a stop
Polled == lastPoll.made /\ ~stopSeen
PollSucceeded ==
    /\ Polled
    /\ ~FetchOrDecodeFails(lastPoll.queue, lastPoll.stats)

C12_AcceptFlag ==
    PollSucceeded =>
        /\ ServiceCanAccept =
              ( /\ queueManager.NumMessages
                      < queueManager.NumConsumers * FactorForMessageAccept
                /\ schedulerByMemoryLoad(lastPoll.stats.nodes) )
        /\ queueManager.NumConsumers = 0 => ~ServiceCanAccept
        /\ ("consumers" \in lastPoll.queue.fields /\ lastPoll.queue.consumers = 0)
              => ~ServiceCanAccept

\* a poll that opened the door, and one that found no consumer
C12_Witness ==
    /\ PollSucceeded
    /\ ~ServiceCanAccept
    /\ boolOldValue
    /\ "consumers" \in lastPoll.queue.fields
    /\ lastPoll.queue.consumers = 0
    /\ lastPoll.queue.messages = 0
    /\ schedulerByMemoryLoad(lastPoll.stats.nodes)

(***************************************************************************)
(* C13.  After a call of CheckForAcceptRequest the technical-error flag is *)
(* true exactly when a fetch or a decode of that call failed; a call whose *)
(* fetches succeed and whose queue statistics report consumers = 0 leaves  *)
(* accepting = false and technicalError = false.                           *)
(***************************************************************************)
C13_TechnicalError ==
    Polled =>
        /\ TechnicalErrorResManager
              <=> FetchOrDecodeFails(lastPoll.queue, lastPoll.stats)
        /\ (PollSucceeded /\ queueManager.NumConsumers = 0)
              => (~ServiceCanAccept /\ ~TechnicalErrorResManager)

(***************************************************************************)
(* C14.  A stop sent on StopChan is eventually received by the loop of     *)
(* SetResManagerState, which sets the accept flag to false and ends; and   *)
(* once the loop has received the stop the accept flag is false in every   *)
(* later state.                                                            *)
(***************************************************************************)
C14_StopHonoured ==
    /\ (Len(StopChan) > 0) ~> (stopSeen /\ ctlPc = "done" /\ ~ServiceCanAccept)
    /\ [](stopSeen => ~ServiceCanAccept)

\* the loop has ended on a stop that came while the door was open
C14_Witness ==
    /\ stopSeen
    /\ ctlPc = "done"
    /\ boolCurValue
    /\ ~ServiceCanAccept

(***************************************************************************)
(* C15.  A DecodeImage call whose request carries a ReplyTo never takes    *)
(* the synchronous path.  When checkURLForReplyTo rejects the URL the call *)
(* returns 400 and an error, with nothing dialed or published and the      *)
(* registry as it was; otherwise the request goes on as a deferred one     *)
(* whatever its Deferred flag: it is published as deferred, registered,    *)
(* and answered with status processing.                                    *)
(***************************************************************************)
C15_ReplyToForcesDeferred ==
    \A id \in RequestIDs :
        (Called(id) /\ reqIn[id][1].ReplyTo # "") =>
            /\ dPc[id] # "syncwait"
            /\ syncWait[id] = 0
            /\ dRet[id].err # "timeout"
            /\ ~checkURLForReplyTo(reqIn[id][1].ReplyTo) =>
                  /\ dPc[id] = "returned"
                  /\ dRet[id].code = 400
                  /\ dRet[id].err # ""
                  /\ connection[id] = "none"
                  /\ rPc[id] = "none"
                  /\ published[id] = <<>>
                  /\ Requests = {} /\ timers = {}
                  /\ timerState[id] = "none"
                  /\ inFlightGauge = 0
            /\ (checkURLForReplyTo(reqIn[id][1].ReplyTo) /\ Published(id)) =>
                  /\ published[id][1].Body.Deferred
                  /\ dPc[id] \in {"register", "register2", "confirm", "returned"}
                  /\ dPc[id] \in {"confirm", "returned"} =>
                        /\ dRet[id] = Return(OcrResult("", "processing", id), 200, "")
                        /\ id \in Requests /\ id \in timers
                        /\ drvPc[id] = "select"

\* a request with a postback URL and the deferred flag unset, registered
\* and handed to the postback goroutine
C15_Witness ==
    \E id \in RequestIDs :
        /\ Called(id)
        /\ checkURLForReplyTo(reqIn[id][1].ReplyTo)
        /\ ~reqIn[id][1].Deferred
        /\ dPc[id] = "returned"
        /\ dRet[id].code = 200
        /\ id \in Requests
        /\ drvPc[id] = "select"

(***************************************************************************)
(* C16.  When the request has no image bytes and decodeBase64 or           *)
(* downloadImgUrl fails, DecodeImage returns to its caller with status     *)
(* code 500 and an error, with no message published and the registry as it *)
(* was, the reliable flag set or not: the call is never left waiting where *)
(* nothing can arrive.                                                     *)
(***************************************************************************)
\* the call of DecodeImage ran into the failure of :171 or :178
ImageFailed(id) == Called(id) /\ dRet[id].err = "image"

C16_ImageFailureReturns ==
    \A id \in RequestIDs :
        ImageFailed(id) =>
            /\ \/ dPc[id] = "returned"
               \/ dPc[id] = "confirm" /\ ConfirmArrives(id)
            /\ dRet[id].code = 500
            /\ published[id] = <<>>
            /\ Requests = {} /\ timers = {}
            /\ timerState[id] = "none"

(***************************************************************************)
(* C17.  deleteRequestFromQueue is idempotent: a call for a request ID     *)
(* that an earlier call has already removed, or that is not in the         *)
(* registry, completes without a crash and leaves the maps as they were.   *)
(***************************************************************************)
\* a goroutine is inside deleteRequestFromQueue for id, about to run :419
CleanupAtStop(id) ==
    \/ drvPc[id] = "delete2"
    \/ \E c \in Callers : pPc[c] = "delete2" /\ pId[c] = id

C17_CleanupIdempotent ==
    /\ ~crashed
    /\ \A id \in RequestIDs : CleanupAtStop(id) => ~StopPanics(id)

(***************************************************************************)
(* C18.  The broker connection a DecodeImage call opened is closed when    *)
(* the synchronous path has completed, by the reply or by the timeout,     *)
(* when the goroutine that waits for the deadline of a poll-only request   *)
(* has made its call, and when the postback goroutine has ended; and the   *)
(* program does not close it before the reply was handed to the result     *)
(* channel or the deadline fired.                                          *)
(***************************************************************************)
C18_ConnectionClosed ==
    \A id \in RequestIDs :
        /\ (Synchronous(id) /\ Published(id) /\ dPc[id] = "returned")
              => connection[id] # "open"
        /\ (PollOnly(id) /\ HasReturned(Watchdog(id)))
              => connection[id] # "open"
        /\ drvPc[id] = "done" => connection[id] # "open"
        /\ connection[id] = "closed"
              => (nSent[id] >= 1 \/ timerState[id] = "fired")

(***************************************************************************)
(* C19.  A registration under a request ID that the registry already holds *)
(* fails with an error, and the ticket the registry holds, its result      *)
(* channel and its timer, stays the one of the first registration.         *)
(***************************************************************************)
\* a second call was made with the ID of a request that is registered
DuplicateCall(id) == Registered(id) /\ Len(d2Req[id]) = 1

C19_DuplicateRejected ==
    \A id \in RequestIDs :
        DuplicateCall(id) =>
            /\ id \in Requests /\ id \in timers
            /\ ticket[id] = [chan |-> 1, timer |-> 1]
            /\ d2Pc[id] = "returned" =>
                  (d2Ret[id].err # "" /\ d2Ret[id].code # 200)

(***************************************************************************)
(* C20.  No thread waits on the result channel of a request while it holds *)
(* requestsAndTimersMu: a call of CheckOcrStatusByID for a request that    *)
(* has no reply yet never keeps a registration or a call of                *)
(* CheckOcrStatusByID for another request ID waiting for the lock.         *)
(***************************************************************************)
\* the call of CheckOcrStatusByID(id) is at the receive and no reply is there
WaitsOnChannel(id) == lPc[Checker(id)] = "receive" /\ replied[id] # "sending"

C20_NoWaitUnderLock ==
    \A id \in LockIDs :
        (WaitsOnChannel(id) /\ mu = Checker(id)) =>
            \A other \in LockIDs \ {id} :
                /\ lPc[Decoder(other)] # "lock"
                /\ lPc[Checker(other)] # "lock"

(***************************************************************************)
(* C21.  Every request ID in the registry has one deadline timer, and it   *)
(* is armed: it was created and has neither fired nor been stopped; and    *)
(* the maps Requests and timers hold the same keys.  (Read outside the     *)
(* two map writes of a registration or of a cleanup, and with the time the *)
(* goroutine that waits for the deadline needs to make its call.)          *)
(***************************************************************************)
\* a goroutine is between the write to Requests and the write to timers
\* (:217-218, :418-420)
MapsInUpdate ==
    \/ \E id \in RequestIDs :
          dPc[id] = "register2" \/ d2Pc[id] = "register2" \/ drvPc[id] = "delete2"
    \/ \E c \in Callers : pPc[c] = "delete2"

\* the deadline of a poll-only request has fired and the goroutine of
\* :229-232 has not yet come back from its call
DeadlineCleanupPending(id) ==
    PollOnly(id) /\ timerState[id] = "fired" /\ ~HasReturned(Watchdog(id))

C21_OneArmedTimer ==
    ~MapsInUpdate =>
        /\ Requests = timers
        /\ \A id \in Requests :
              timerState[id] = "armed" \/ DeadlineCleanupPending(id)

(***************************************************************************)
(* C22.  What schedulerByMemoryLoad returns is the truth of                *)
(* sum(mem_used) < sum(mem_limit) * 95 / 100 in exact arithmetic, for      *)
(* every list of nodes: totals that are no multiples of 100, the empty     *)
(* list, and totals whose product with 95 is beyond 64 bits.               *)
(***************************************************************************)
\* a uint64 as a number of six digits, wide enough for the sums and products
Wide(a) == a \o <<0, 0>>

RECURSIVE WideSum(_, _)
WideSum(nodes, f) ==
    IF nodes = <<>> THEN Wide(U64(0))
    ELSE Uint64Add(Wide(Head(nodes)[f]), WideSum(Tail(nodes), f))

\* 100 * sum(mem_used) < 95 * sum(mem_limit), nothing lost
ExactMemoryOK(nodes) ==
    Uint64Less(Uint64Mul(WideSum(nodes, "MemUsed"), 100),
               Uint64Mul(WideSum(nodes, "MemLimit"), memoryThreshold))

C22_MemoryLoadExact ==
    memPolled => (flagForResources = ExactMemoryOK(resManager))

(***************************************************************************)
(* C23.  When handleRpcResponse takes a delivery with its own correlation  *)
(* id whose body is not JSON, the result it puts into the result channel   *)
(* has the status error, the parse error as its text and the id of the     *)
(* request; and the router ends.                                           *)
(***************************************************************************)
\* the router sent the result of a matching delivery whose body is not JSON
SentMalformed(id) ==
    /\ nSent[id] = 1
    /\ Matches(id, delivery[id].CorrelationId)
    /\ ~delivery[id].Body.json

C23_MalformedBodyIsError ==
    \A id \in RequestIDs :
        SentMalformed(id) =>
            /\ rVal[id].Status = "error"
            /\ rVal[id].Text # ""
            /\ rVal[id].ID = id
            /\ rPc[id] = "done"

(***************************************************************************)
(* C24.  When the delivery stream of a request ends before a delivery with *)
(* the request's correlation id came, handleRpcResponse has put a result   *)
(* with the status error into the result channel by the time it ends.      *)
(***************************************************************************)
\* the router ended because the stream did, no delivery having matched
EndedByStream(id) == rPc[id] = "done" /\ connection[id] = "lost"

C24_StreamCloseIsError ==
    \A id \in RequestIDs :
        EndedByStream(id) =>
            /\ nSent[id] = 1
            /\ rVal[id].Status = "error"

(***************************************************************************)
(* C25.  A delivery whose correlation id is not the router's changes       *)
(* nothing: the result channel, the connection and the two maps stay as    *)
(* they are and the router goes on consuming, so that a later delivery     *)
(* with the router's correlation id is still handed on.                    *)
(***************************************************************************)
\* the step is the router of id taking a delivery meant for somebody else
TakesForeign(id) ==
    /\ nDeliveries'[id] = nDeliveries[id] + 1
    /\ delivery'[id].CorrelationId # id

C25_ForeignDeliverySkipped ==
    [][ \A id \in RequestIDs :
           TakesForeign(id) =>
              /\ UNCHANGED <<rpcResponseChan, connection, Requests, timers,
                             rVal, nSent>>
              /\ rPc'[id] = "consuming" ]_vars

\* the router skipped a delivery and then handed on the one that matched
C25_Witness ==
    \E id \in RequestIDs :
        /\ nDeliveries[id] = 2
        /\ nSent[id] = 1
        /\ delivery[id].CorrelationId = id
        /\ rPc[id] = "done"

(***************************************************************************)
(* C26.  However the calls of CheckOcrStatusByID by clients, the call made *)
(* when the deadline fires and the cleanup of the postback goroutine fall  *)
(* together for one request ID: every call returns the unknown-request     *)
(* error, or a result with the status processing and the id, or a terminal *)
(* result with the id, and never an empty result without an error; and     *)
(* deleteRequestFromQueue never runs for an ID that timers no longer       *)
(* holds.                                                                  *)
(***************************************************************************)
\* what the last call of caller c returned is one of the three outcomes
PollOutcomeKnown(c) ==
    \/ pRet[c].kind = "error"
    \/ pRet[c].kind = "ok" /\ pRet[c].res = OcrResult("", "processing", pId[c])
    \/ pRet[c].kind = "ok" /\ IsTerminalFor(pId[c], pRet[c].res)
                           /\ pRet[c].res # EmptyResult

\* a goroutine has decided to call deleteRequestFromQueue(id) or is in it
InCleanup(id) ==
    \/ drvPc[id] \in {"delete1", "delete2"}
    \/ \E c \in Callers : pPc[c] \in {"delete1", "delete2"} /\ pId[c] = id

C26_PollOutcomes ==
    /\ \A c \in Callers : HasReturned(c) => PollOutcomeKnown(c)
    /\ \A id \in RequestIDs : InCleanup(id) => id \in timers

(***************************************************************************)
(* C27.  Every call of CheckOcrStatusByID has released the lock on         *)
(* requestsAndTimersMu when it returns, whichever return it takes: the     *)
(* unknown ID, the status processing, the terminal result.  When nobody is *)
(* inside a registration, a call of CheckOcrStatusByID or a cleanup, no    *)
(* read lock is held.                                                      *)
(***************************************************************************)
\* a goroutine is between an RLock and the RUnlock that belongs to it
RegistryOpInProgress ==
    \/ MapsInUpdate
    \/ \E c \in Callers : pPc[c] \in {"select", "default", "unlock"}

C27_LockReleased == ~RegistryOpInProgress => rlocks = 0

(***************************************************************************)
(* C28.  The in-flight gauge counts the registry: with no registry         *)
(* operation in progress it equals the number of request IDs in Requests,  *)
(* one increment for each registered deferred request and one decrement    *)
(* for the removal of its entry; and it is never below zero.               *)
(***************************************************************************)
C28_GaugeIsRegistrySize ==
    /\ inFlightGauge >= 0
    /\ ~RegistryOpInProgress => inFlightGauge = Cardinality(Requests)

=============================================================================
